---- MODULE Spec2Model ----
(***************************************************************************)
(* fa-session-redis: the client normalization layer and the session store  *)
(* of src/src/index.ts, over a model of a Redis-like store with expiring   *)
(* keys.  Every session-store operation is split at its awaits: one step   *)
(* per underlying store command, so that concurrent request scopes and the *)
(* clock can interleave between two commands of the same operation.        *)
(***************************************************************************)
EXTENDS Integers, Sequences, FiniteSets, TLC

\* ------------------------------------------------------------------ bounds
MaxTime == 3        \* the clock runs over 0..MaxTime (seconds)
MaxIds == 1         \* session ids the generator hands out: 1..MaxIds
MaxFaults == 1      \* store calls that may fail in one behaviour

\* ------------------------------------------------- values of the program
Scopes == {1, 2}                    \* request scopes (one metadata slot each)
Sids == 1..MaxIds                   \* ids produced by config.genSessionId
EmptyId == 0                        \* the session id ''
NullId == -1                        \* the session id null
AllIds == Sids
Disabled == -1                      \* config.ttl === false
NoExpiry == -1                      \* a key that carries no TTL
OneYear == 365 * 24 * 60 * 60       \* 365 * 24 * 60 * 60 * 1000 ms, in seconds

\* Payloads: objects are sets of <<field, value>> pairs; "undef" is a field
\* holding undefined, which JSON.stringify drops.
Obj(f) == [k |-> "obj", f |-> f]
Undefined == [k |-> "undefined", f |-> {}]   \* create() called with no payload
Zero == [k |-> "zero", f |-> {}]             \* the number 0, a falsy payload
Cyclic == [k |-> "cyclic", f |-> {}]         \* an object JSON.stringify rejects
P1 == Obj({<<"user", "1">>})
P2 == Obj({<<"role", "2">>})
PLossy == Obj({<<"user", "1">>, <<"role", "undef">>})
EmptyObj == Obj({})
CreatePayloads == {P1, PLossy, Zero, Cyclic, Undefined}
SetPayloads == {P2, Zero, Cyclic}

\* Texts held by the store.
Json(v) == [t |-> "json", v |-> v]
Garbage == [t |-> "garbage", v |-> Undefined]    \* 'not-json{'
NoText == [t |-> "nil", v |-> Undefined]         \* the reply null of GET

Falsy(p) == p.k \in {"undefined", "zero"}

\* JSON.stringify: throws on a cyclic value, drops undefined-valued fields.
StringifyThrows(p) == p.k = "cyclic"
JSONstringify(p) ==
    IF p.k = "obj" THEN Json(Obj({fv \in p.f : fv[2] # "undef"})) ELSE Json(p)

\* JSON.parse: throws on text that is not JSON.
ParseThrows(text) == text.t # "json"
JSONparse(text) == text.v

\* ------------------------------------------------------- configuration
\* RedisSessionStoreOptions merged over the defaults; ttl and renewBefore in
\* seconds, with small stand-ins for 86400 and 600.
TTL == 2
RenewBefore == 2
Prefix == "session"

\* ------------------------------------------------------ underlying clients
\* A client is the set of optional methods it exposes (get, set, del and
\* expire are always there) and the encoding of its EXPIRE reply.
Client(m, enc) == [m |-> m, enc |-> enc]
IoRedisFull == Client({"scan", "mget", "setex", "ttl"}, "int")
IoRedisBare == Client({"scan", "mget", "ttl"}, "int")
NodeRedisFull == Client({"scanIterator", "mGet", "setEx", "ttl"}, "bool")
NodeRedisBare == Client({"scanIterator", "mGet"}, "int")
Unsupported == Client({}, "int")
\* A NormalizedRedisClient, as createNormalizedRedisClient returns it: every
\* reply of set, setex and expire is a boolean.
Normalized == Client({"setex", "ttl", "mget", "scanIterator"}, "norm")
Clients == {IoRedisFull, IoRedisBare, NodeRedisFull, NodeRedisBare, Unsupported,
            Normalized}

\* The same without the test !client.scanIterator.
isIoRedisClient_AnyIterator(client) ==
    /\ "scan" \in client.m
    /\ "mget" \in client.m

isIoRedisClient(client) ==
    /\ "scan" \in client.m
    /\ "mget" \in client.m
    /\ "scanIterator" \notin client.m

isNodeRedisClient(client) ==
    /\ "scanIterator" \in client.m
    /\ "mGet" \in client.m

\* The same without the final else branch.
createNormalizedRedisClient_NoThrow(client) ==
    IF isIoRedisClient(client) THEN "ioredis" ELSE "node"

\* The branch createNormalizedRedisClient takes: "threw" is the Error
\* 'Unsupported Redis client type. Please use redis or ioredis.'
createNormalizedRedisClient(client) ==
    IF isIoRedisClient(client) THEN "ioredis"
    ELSE IF isNodeRedisClient(client) THEN "node"
    ELSE "threw"

\* The same with a final else branch that does not throw.
StoreClient_NoThrow(client) ==
    IF "setex" \in client.m THEN "raw"
    ELSE createNormalizedRedisClient_NoThrow(client)

\* createRedisSessionStore: a client that already has setex is used as it is.
StoreClient(client) ==
    IF "setex" \in client.m THEN "raw" ELSE createNormalizedRedisClient(client)

getKey(sessionId) == <<Prefix, sessionId>>
Keys == {getKey(s) : s \in AllIds}
\* A key of another user of the same store, outside the session prefix.
OtherKey == <<"other", 1>>
StoreKeys == Keys \cup {OtherKey}

\* --------------------------------------------------- the underlying store
\* A string-keyed store with per-key expiry: the commands behind the
\* RedisLikeClient interface.  Expired keys are removed when the clock
\* advances, so a key in the store is a live key.
Absent == [val |-> NoText, exp |-> NoExpiry]
\* A key outside the modelled key space is an absent key.
Present(st, k) == k \in DOMAIN st /\ st[k].val # NoText
RedisGet(st, k) == IF k \in DOMAIN st THEN st[k].val ELSE NoText
RedisSet(st, k, v) == [st EXCEPT ![k] = [val |-> v, exp |-> NoExpiry]]
\* The same with a write that is not atomic: over another value it leaves
\* text that is neither the old value nor the new one.
RedisSetex_Mixed(st, k, secs, v, t) ==
    [st EXCEPT ![k] = [val |-> IF Present(st, k) /\ st[k].val # v
                               THEN Garbage
                               ELSE v,
                       exp |-> t + secs]]
RedisSetex(st, k, secs, v, t) == [st EXCEPT ![k] = [val |-> v, exp |-> t + secs]]
\* The same making an empty record where it finds none.
RedisExpire_Upsert(st, k, secs, t) ==
    [st EXCEPT ![k] = [val |-> IF Present(st, k) THEN st[k].val ELSE Json(EmptyObj),
                       exp |-> t + secs]]
\* The same with an EXPIRE that reaches every key of the store.
RedisExpire_AllKeys(st, k, secs, t) ==
    [j \in DOMAIN st |-> IF Present(st, j) THEN [st[j] EXCEPT !.exp = t + secs]
                         ELSE st[j]]
RedisExpire(st, k, secs, t) ==
    IF Present(st, k) THEN [st EXCEPT ![k].exp = t + secs] ELSE st
RedisDel(st, k) == [st EXCEPT ![k] = Absent]
\* DEL with several keys: the store afterwards and the number removed.
RedisDelAll(st, ks) ==
    [k \in DOMAIN st |-> IF \E i \in 1..Len(ks) : ks[i] = k THEN Absent ELSE st[k]]
Removed(st, ks) == Cardinality({k \in DOMAIN st :
                                   Present(st, k) /\ \E i \in 1..Len(ks) : ks[i] = k})
RedisTtl(st, k, t) ==
    IF ~Present(st, k) THEN -2
    ELSE IF st[k].exp = NoExpiry THEN -1
    ELSE st[k].exp - t
Purge(st, t) ==
    [k \in DOMAIN st |->
        IF st[k].exp # NoExpiry /\ st[k].exp <= t THEN Absent ELSE st[k]]

\* SCAN: the key space is walked in a fixed order, count slots for each
\* command; a command answers the keys in its slots that are present and
\* match, and the cursor to go on from, 0 when the walk is over.  A page
\* may be empty while the cursor is not 0.
KeyOrder ==
    CHOOSE q \in [1..Cardinality(StoreKeys) -> StoreKeys] :
        \A k \in StoreKeys : \E i \in DOMAIN q : q[i] = k
MatchAll == "*"
MatchPrefix == "session:*"
Matches(match, k) == match = MatchAll \/ k[1] = Prefix
Matching(st, match) == {k \in DOMAIN st : Present(st, k) /\ Matches(match, k)}
PageKeys(st, match, from, to) ==
    LET Hit(k) == Present(st, k) /\ Matches(match, k) IN
    SelectSeq(SubSeq(KeyOrder, from, to), Hit)
RedisScan(st, cursor, match, count) ==
    LET n == Len(KeyOrder)
        to == IF cursor + count < n THEN cursor + count ELSE n IN
    [next |-> IF cursor + count < n THEN cursor + count ELSE 0,
     keys |-> PageKeys(st, match, cursor + 1, to)]

\* Replies as the client libraries encode them: the string 'OK', null, the
\* numbers 1 and 0, the booleans true and false.
Truthy(r) == r \in {"OK", "n1", "bT"}
ExpireReply(cl, hit) ==
    IF cl.enc = "int" THEN (IF hit THEN "n1" ELSE "n0")
    ELSE (IF hit THEN "bT" ELSE "bF")
Bool(b) == IF b THEN "bT" ELSE "bF"
\* The reply of SET and SETEX: 'OK' or null from a client library, a boolean
\* from a normalized client.
WriteReply(cl, ack) ==
    IF cl.enc = "norm" THEN Bool(ack) ELSE (IF ack THEN "OK" ELSE "null")

\* ------------------------------------------------------- normalized client
\* What each branch of createNormalizedRedisClient makes of a raw reply; the
\* "raw" kind is a client used without normalization.
NormSet(kind, r) ==
    CASE kind = "ioredis" -> Bool(r \in {"OK", "s1"})     \* 'OK' or '1'
      [] kind = "node" -> Bool(r = "OK")
      [] OTHER -> r
NormSetex(kind, r) ==
    CASE kind = "ioredis" -> Bool(r \in {"OK", "s1"})
      [] kind = "node" -> Bool(r = "OK")
      [] OTHER -> r
\* The same taking only the integer 1 for success.
NormExpire_IntOnly(kind, r) ==
    IF kind = "raw" THEN r ELSE Bool(r = "n1")
NormExpire(kind, r) ==
    IF kind = "raw" THEN r ELSE Bool(r \in {"n1", "bT"})
\* The same reporting success whatever expire replied.
NormSetexFallback_Always(kind, r) == "bT"
\* The reply of the set-then-expire fallback's second step.
NormSetexFallback(kind, r) ==
    IF kind = "ioredis" THEN Bool(r \in {"n1", "bT"}) ELSE r
\* Whether setex is one combined command for this client.
HasSetex(kind, cl) ==
    CASE kind = "ioredis" -> "setex" \in cl.m
      [] kind = "node" -> "setEx" \in cl.m
      [] OTHER -> TRUE
\* Whether ttl reaches the store; a normalized client answers -2 otherwise.
HasTtl_Always(cl) == TRUE
HasTtl(cl) == "ttl" \in cl.m

\* ---------------------------------------- calls on the normalized client
\* What a call resolves to: s is "threw" for a rejection, "text" or "null"
\* for get, a reply encoding ("bT", "bF", "n1", ...) for set, setex and
\* expire, "int" with the number n for del and ttl, "list" with the values v
\* for mget.
ARes(s, n, v) == [s |-> s, n |-> n, v |-> v]
AThrew == ARes("threw", 0, <<>>)
AFlag(s) == ARes(s, 0, <<>>)
ANum(n) == ARes("int", n, <<>>)
\* The effect of one step of a call: the store afterwards, the result, the
\* underlying commands issued, whether the call has a further command to
\* issue, and the failures it met.
AOut(st, res, cmds, more, spent) ==
    [st |-> st, res |-> res, cmds |-> cmds, more |-> more, spent |-> spent]

NGet(kind, cl, st, k, f) ==
    IF f = "throw" THEN AOut(st, AThrew, <<"get">>, FALSE, 1)
    ELSE AOut(st, ARes(IF Present(st, k) THEN "text" ELSE "null", 0,
                       <<RedisGet(st, k)>>), <<"get">>, FALSE, 0)

NSet(kind, cl, st, k, v, f) ==
    CASE f = "throw" -> AOut(st, AThrew, <<"set">>, FALSE, 1)
      [] f = "nack" ->
            AOut(st, AFlag(NormSet(kind, WriteReply(cl, FALSE))), <<"set">>, FALSE, 1)
      [] OTHER ->
            AOut(RedisSet(st, k, v), AFlag(NormSet(kind, WriteReply(cl, TRUE))),
                 <<"set">>, FALSE, 0)

\* setex up to its first underlying command: the combined command, or the
\* set of the set-then-expire fallback, after which expire is still to come
\* if the set was acknowledged.
NSetex(kind, cl, st, k, secs, v, t, f) ==
    IF HasSetex(kind, cl)
    THEN CASE f = "throw" -> AOut(st, AThrew, <<"setex">>, FALSE, 1)
           [] f = "nack" ->
                AOut(st, AFlag(NormSetex(kind, WriteReply(cl, FALSE))),
                     <<"setex">>, FALSE, 1)
           [] OTHER ->
                AOut(RedisSetex(st, k, secs, v, t),
                     AFlag(NormSetex(kind, WriteReply(cl, TRUE))),
                     <<"setex">>, FALSE, 0)
    ELSE CASE f = "throw" -> AOut(st, AThrew, <<"set">>, FALSE, 1)
           [] f = "nack" -> AOut(st, AFlag("bF"), <<"set">>, FALSE, 1)
           [] OTHER -> AOut(RedisSet(st, k, v), AFlag("none"), <<"set">>, TRUE, 0)

\* The expire of the set-then-expire fallback.
NSetexExpire(kind, cl, st, k, secs, t, f) ==
    IF f = "throw" THEN AOut(st, AThrew, <<"expire">>, FALSE, 1)
    ELSE AOut(RedisExpire(st, k, secs, t),
              AFlag(NormSetexFallback(kind, ExpireReply(cl, Present(st, k)))),
              <<"expire">>, FALSE, 0)

\* The same answering the number of keys asked for.
NDel_CountsAll(kind, cl, st, ks, f) ==
    IF f = "throw" THEN AOut(st, AThrew, <<"del">>, FALSE, 1)
    ELSE AOut(RedisDelAll(st, ks), ANum(Len(ks)), <<"del">>, FALSE, 0)
\* del takes one key or an array of keys and issues one DEL.
NDel(kind, cl, st, ks, f) ==
    IF f = "throw" THEN AOut(st, AThrew, <<"del">>, FALSE, 1)
    ELSE AOut(RedisDelAll(st, ks), ANum(Removed(st, ks)), <<"del">>, FALSE, 0)

NExpire(kind, cl, st, k, secs, t, f) ==
    IF f = "throw" THEN AOut(st, AThrew, <<"expire">>, FALSE, 1)
    ELSE AOut(RedisExpire(st, k, secs, t),
              AFlag(NormExpire(kind, ExpireReply(cl, Present(st, k)))),
              <<"expire">>, FALSE, 0)

NTtl(kind, cl, st, k, t, f) ==
    IF ~HasTtl(cl) THEN AOut(st, ANum(-2), <<>>, FALSE, 0)
    ELSE IF f = "throw" THEN AOut(st, AThrew, <<"ttl">>, FALSE, 1)
    ELSE AOut(st, ANum(RedisTtl(st, k, t)), <<"ttl">>, FALSE, 0)

\* mget: the batched primitive (mget for ioredis, mGet for node-redis), or
\* one get per key when the client has none.
HasMget(kind, cl) ==
    IF kind = "ioredis" THEN "mget" \in cl.m ELSE "mGet" \in cl.m
\* The same answering in the reverse of the input order.
NMget_Reversed(kind, cl, st, ks, f) ==
    IF f = "throw" THEN AOut(st, AThrew, <<"mget">>, FALSE, 1)
    ELSE AOut(st, ARes("list", 0,
                       [i \in 1..Len(ks) |-> RedisGet(st, ks[Len(ks) + 1 - i])]),
              <<"mget">>, FALSE, 0)
NMget(kind, cl, st, ks, f) ==
    LET cmds == IF HasMget(kind, cl) THEN <<"mget">>
                ELSE [i \in 1..Len(ks) |-> "get"] IN
    IF f = "throw" THEN AOut(st, AThrew, <<cmds[1]>>, FALSE, 1)
    ELSE AOut(st, ARes("list", 0, [i \in 1..Len(ks) |-> RedisGet(st, ks[i])]),
              cmds, FALSE, 0)

\* scanIterator.  Shape A issues scan commands itself and goes on until the
\* cursor it gets back is '0'.  Shape B walks the iterator of the client,
\* which hands over what each page holds: an array of keys (a client that
\* replies numbers) or the keys one by one (a client that replies booleans),
\* until the iterator ends.
Batch(ks) == [arr |-> TRUE, ks |-> ks]
Single(k) == [arr |-> FALSE, ks |-> <<k>>]
Batched(cl) == cl.enc = "int"
\* What the client hands over for a page.
PageItems(kind, cl, page) ==
    IF kind = "ioredis" \/ Batched(cl) THEN <<Batch(page)>>
    ELSE [i \in 1..Len(page) |-> Single(page[i])]
\* The keys the generator yields for these items, in order.
RECURSIVE Yields(_)
Yields(items) ==
    IF items = <<>> THEN <<>> ELSE Head(items).ks \o Yields(Tail(items))
\* The same ending the walk at the first empty page.
ScanEnds_OnEmptyPage(next, page) == next = 0 \/ page = <<>>
\* Whether the generator ends after this page.
ScanEnds(next, page) == next = 0
\* One page of the walk: the keys yielded, the cursor, whether it ends.
NScanPage(kind, cl, st, cursor, match, count) ==
    LET r == RedisScan(st, cursor, match, count) IN
    [out |-> Yields(PageItems(kind, cl, r.keys)),
     cursor |-> r.next,
     ends |-> ScanEnds(r.next, r.keys)]

\* The calls the model makes: operation, keys, value.
ACall(op, ks, v) == [op |-> op, keys |-> ks, v |-> v]
AValues == {Json(P1), Json(P2)}
ACalls ==
    {ACall(op, <<k>>, NoText) : op \in {"get", "del", "expire", "ttl"}, k \in StoreKeys}
    \cup {ACall(op, <<k>>, v) : op \in {"set", "setex"}, k \in StoreKeys, v \in AValues}
    \cup {ACall(op, <<k1, k2>>, NoText) :
                op \in {"mget", "del"}, k1 \in StoreKeys, k2 \in StoreKeys}

\* The first step of call c on the normalized client of this kind.
NCall(kind, cl, st, t, c, f) ==
    CASE c.op = "get" -> NGet(kind, cl, st, c.keys[1], f)
      [] c.op = "set" -> NSet(kind, cl, st, c.keys[1], c.v, f)
      [] c.op = "setex" -> NSetex(kind, cl, st, c.keys[1], TTL, c.v, t, f)
      [] c.op = "del" -> NDel(kind, cl, st, c.keys, f)
      [] c.op = "expire" -> NExpire(kind, cl, st, c.keys[1], TTL, t, f)
      [] c.op = "ttl" -> NTtl(kind, cl, st, c.keys[1], t, f)
      [] OTHER -> NMget(kind, cl, st, c.keys, f)

\* ------------------------------------------------------------------ state
VARIABLES
    client,     \* the underlying client handed to the constructor
    cfg,        \* the store configuration
    ctor,       \* "init"; "adapter" / "adapter_threw": createNormalizedRedisClient
                \* returned / threw; "store" / "store_threw": createRedisSessionStore
    nclient,    \* kind of normalized client in use: "none", "ioredis", "node", "raw"
    now,        \* the clock, in seconds
    store,      \* the underlying store: key -> [val, exp]
    nextId,     \* next id of config.genSessionId
    faults,     \* store calls that may still fail
    meta,       \* sessionMetaDataCtx of each request scope
    pc,         \* position of each request scope inside its operation
    loc,        \* local variables of the operation of each scope
    ret,        \* what the last operation of each scope returned
    log,        \* store commands issued by the current operation of each scope
    fresh,      \* history of each session id: who last wrote or removed its
                \* record, with which argument, and whether that call succeeded
    acall,      \* the last call made on the normalized client directly
    akeys,      \* the keys the callers of the normalized client address
    scan,       \* the scanIterator generator a caller is walking
    scopes      \* the request scopes that are served at the same time

vars == <<client, cfg, ctor, nclient, now, store, nextId, faults,
          meta, pc, loc, ret, log, fresh, acall, akeys, scan, scopes>>

NoMeta == [sessionId |-> NullId, expiresTime |-> 0]
HasMeta(m) == m.sessionId \notin {EmptyId, NullId}

\* Return values.
RNone == [r |-> "none", v |-> Undefined]
RNull == [r |-> "null", v |-> Undefined]
RUndefined == [r |-> "undefined", v |-> Undefined]
RTrue == [r |-> "true", v |-> Undefined]
RFalse == [r |-> "false", v |-> Undefined]
RThrew == [r |-> "threw", v |-> Undefined]
RValue(p) == [r |-> "value", v |-> p]
RBool(b) == IF b THEN RTrue ELSE RFalse

\* History records: by is "none", "create", "set", "destroy", "raw" or
\* "expired"; t is the time the create returned.
Hist(by, p) == [by |-> by, p |-> p, ok |-> FALSE, t |-> 0]
NoHist == Hist("none", Undefined)

\* No call made yet on the normalized client.
NoCall == [op |-> "none", keys |-> <<>>, v |-> NoText, res |-> AFlag("none"),
           cmds |-> <<>>, more |-> FALSE, f |-> "ok"]

\* No generator.  A generator is "open", "done" or "threw"; out are the keys
\* it has yielded, pages the commands it has issued; snap is the store when
\* it was made, and clean says every page so far was read from that store.
EmptyStore == [k \in StoreKeys |-> Absent]
NoScan == [state |-> "none", match |-> MatchAll, count |-> 0, cursor |-> 0,
           out |-> <<>>, pages |-> 0, snap |-> EmptyStore, clean |-> TRUE,
           taken |-> 0]

Loc0 == [op |-> "none", sid |-> NullId, data |-> NoText, user |-> Undefined,
         result |-> "null", ttl |-> 0, saved |-> NoMeta,
         expect |-> NoHist, faulted |-> FALSE, pub |-> FALSE, t0 |-> 0]
\* The locals of an operation called now.
LocOf(op, sid) == [Loc0 EXCEPT !.op = op, !.sid = sid, !.t0 = now]
\* What stays of an operation's locals once it has returned; pub says the
\* operation called sessionMetaDataCtx.set.
Returned(l) ==
    [Loc0 EXCEPT !.op = l.op, !.sid = l.sid, !.faulted = l.faulted,
                 !.pub = l.pub]

\* The state after module load, for a client and options among pairs; or
\* among wide, where the callers of the normalized client address a key of
\* their own beside the session keys; or among racing, where two requests
\* are served at the same time.  st is what the store holds at that time.
SetupFrom(pairs, wide, racing, st) ==
    /\ \/ \E cc \in pairs :
            client = cc[1] /\ cfg = cc[2] /\ akeys = Keys /\ scopes = {1}
       \/ \E cc \in wide :
            client = cc[1] /\ cfg = cc[2] /\ akeys = StoreKeys /\ scopes = {1}
       \/ \E cc \in racing :
            client = cc[1] /\ cfg = cc[2] /\ akeys = Keys /\ scopes = Scopes
    /\ ctor = "init"
    /\ nclient = "none"
    \* two requests at the same time are followed over one tick of the clock
    /\ now = IF scopes = Scopes THEN MaxTime - 1 ELSE 0
    /\ store = st
    /\ nextId = 1
    \* two requests at the same time are served over a store that does not fail
    /\ faults = IF scopes = Scopes THEN 0 ELSE MaxFaults
    /\ meta = [sc \in Scopes |-> NoMeta]
    /\ pc = [sc \in Scopes |-> "idle"]
    /\ loc = [sc \in Scopes |-> Loc0]
    /\ ret = [sc \in Scopes |-> RNone]
    /\ log = [sc \in Scopes |-> <<>>]
    /\ fresh = [s \in AllIds |-> NoHist]
    /\ acall = NoCall
    /\ scan = NoScan

SetupAll(pairs, wide, racing) == SetupFrom(pairs, wide, racing, EmptyStore)
SetupWith(pairs, wide) == SetupAll(pairs, wide, {})
Setup(pairs) == SetupWith(pairs, {})

\* ----------------------------------------------------------- construction
\* createNormalizedRedisClient(client), called directly.
NewNormalizedClient ==
    /\ ctor = "init"
    /\ LET kind == createNormalizedRedisClient(client) IN
        IF kind = "threw"
        THEN ctor' = "adapter_threw" /\ nclient' = "none"
        ELSE ctor' = "adapter" /\ nclient' = kind
    /\ UNCHANGED <<acall, akeys, scan, scopes, client, cfg, now, store, nextId, faults,
                   meta, pc, loc, ret, log, fresh>>

\* createRedisSessionStore(client, options).
NewSessionStore ==
    /\ ctor = "init"
    /\ LET kind == StoreClient(client) IN
        IF kind = "threw"
        THEN ctor' = "store_threw" /\ nclient' = "none"
        ELSE ctor' = "store" /\ nclient' = kind
    /\ UNCHANGED <<acall, akeys, scan, scopes, client, cfg, now, store, nextId, faults,
                   meta, pc, loc, ret, log, fresh>>

\* ------------------------------------------------------------ environment
\* One second passes; the store drops the keys whose TTL has run out.
Tick ==
    /\ ctor \in {"store", "adapter"}
    /\ now < MaxTime
    /\ now' = now + 1
    /\ store' = Purge(store, now + 1)
    /\ fresh' = [s \in AllIds |->
                    IF Present(store, getKey(s)) /\ ~Present(store', getKey(s))
                    THEN Hist("expired", Undefined) ELSE fresh[s]]
    /\ UNCHANGED <<acall, akeys, scan, scopes, client, cfg, ctor, nclient, nextId, faults,
                   meta, pc, loc, ret, log>>

\* Another user of the same store writes text that is not JSON under a key.
RawWrite(k) ==
    /\ ctor \in {"store", "adapter"}
    /\ store[k].val # Garbage
    /\ store' = RedisSet(store, k, Garbage)
    /\ fresh' = [s \in AllIds |->
                    IF getKey(s) = k THEN Hist("raw", Undefined) ELSE fresh[s]]
    /\ UNCHANGED <<acall, akeys, scan, scopes, client, cfg, ctor, nclient, now, nextId, faults,
                   meta, pc, loc, ret, log>>

\* Another user of the same store deletes a key.
RawDel(k) ==
    /\ ctor \in {"store", "adapter"}
    /\ Present(store, k)
    /\ store' = RedisDel(store, k)
    /\ fresh' = [s \in AllIds |->
                    IF getKey(s) = k THEN Hist("raw", Undefined) ELSE fresh[s]]
    /\ UNCHANGED <<acall, akeys, scan, scopes, client, cfg, ctor, nclient, now, nextId, faults,
                   meta, pc, loc, ret, log>>

\* The request ends and the scope serves a new request: its metadata slot
\* starts empty.
NewScope(sc) ==
    /\ ctor = "store" /\ sc \in scopes
    /\ pc[sc] = "idle"
    /\ HasMeta(meta[sc])
    /\ meta' = [meta EXCEPT ![sc] = NoMeta]
    /\ UNCHANGED <<acall, akeys, scan, scopes, client, cfg, ctor, nclient, now, store, nextId, faults,
                   pc, loc, ret, log, fresh>>

\* A store call may fail while the budget lasts: the client rejects
\* ("throw"), or the store refuses a write and answers null ("nack").
Outcomes == IF faults > 0 THEN {"ok", "throw"} ELSE {"ok"}
WriteOutcomes == IF faults > 0 THEN {"ok", "throw", "nack"} ELSE {"ok"}
Spend(f) == faults' = IF f = "ok" THEN faults ELSE faults - 1

\* ------------------------------------- callers of the normalized client
\* A caller makes call c on the normalized client; f is the outcome of the
\* underlying command it issues.
AdapterCall(c, f) ==
    /\ ctor = "adapter"
    /\ ~acall.more
    /\ scan.state # "open"
    /\ scan' = NoScan
    /\ \A i \in 1..Len(c.keys) : c.keys[i] \in akeys
    /\ f \in (IF c.op \in {"set", "setex"} THEN WriteOutcomes ELSE Outcomes)
    /\ LET o == NCall(nclient, client, store, now, c, f) IN
        /\ f = "ok" \/ o.spent > 0
        /\ store' = o.st
        /\ faults' = faults - o.spent
        /\ acall' = [op |-> c.op, keys |-> c.keys, v |-> c.v, res |-> o.res,
                     cmds |-> o.cmds, more |-> o.more, f |-> f]
    /\ UNCHANGED <<akeys, scopes, client, cfg, ctor, nclient, now, nextId,
                   meta, pc, loc, ret, log, fresh>>

\* A caller asks for scanIterator(match, count): a generator is made and no
\* command is issued yet.
ScanCounts == {1, 2}
ScanStart(match, count) ==
    /\ ctor = "adapter"
    /\ ~acall.more
    /\ scan.state # "open"
    /\ acall' = NoCall
    /\ scan' = [NoScan EXCEPT !.state = "open", !.match = match, !.count = count,
                              !.snap = store]
    /\ UNCHANGED <<akeys, scopes, client, cfg, ctor, nclient, now, store, nextId, faults,
                   meta, pc, loc, ret, log, fresh>>

\* The generator is suspended at each yield: it goes on to its next page
\* request when the consumer pulls after the last key yielded so far; sc.out
\* are the keys of the pages fetched, sc.taken how many the consumer took.
CanFetch_Eager(sc) == TRUE
CanFetch(sc) == sc.taken = Len(sc.out)

\* The caller pulls on the generator with no key left to yield: the
\* generator fetches the next page, whose keys it will yield, or ends.
ScanPage(f) ==
    /\ ctor = "adapter"
    /\ scan.state = "open"
    /\ CanFetch(scan)
    /\ f \in Outcomes
    /\ Spend(f)
    /\ IF f = "throw"
       THEN scan' = [scan EXCEPT !.state = "threw", !.pages = @ + 1,
                                 !.snap = EmptyStore]
       ELSE LET p == NScanPage(nclient, client, store, scan.cursor,
                               scan.match, scan.count)
                clean == scan.clean /\ store = scan.snap IN
            scan' = [scan EXCEPT !.state = IF p.ends THEN "done" ELSE "open",
                                 !.cursor = p.cursor,
                                 !.out = @ \o p.out,
                                 !.pages = @ + 1,
                                 !.clean = clean,
                                 !.snap = IF clean /\ ~p.ends THEN @ ELSE EmptyStore]
    /\ UNCHANGED <<acall, akeys, scopes, client, cfg, ctor, nclient, now, store, nextId,
                   meta, pc, loc, ret, log, fresh>>

\* The caller pulls and the generator yields the next key of its page.
ScanTake ==
    /\ ctor = "adapter"
    /\ scan.state \in {"open", "done"}
    /\ scan.taken < Len(scan.out)
    /\ scan' = [scan EXCEPT !.taken = @ + 1]
    /\ UNCHANGED <<acall, akeys, scopes, client, cfg, ctor, nclient, now, store, nextId,
                   faults, meta, pc, loc, ret, log, fresh>>

\* The caller leaves its loop before the generator has ended: the generator
\* returns where it is suspended.
ScanStop ==
    /\ ctor = "adapter"
    /\ scan.state = "open"
    /\ scan' = [scan EXCEPT !.state = "stopped", !.snap = EmptyStore]
    /\ UNCHANGED <<acall, akeys, scopes, client, cfg, ctor, nclient, now, store, nextId,
                   faults, meta, pc, loc, ret, log, fresh>>

\* The set-then-expire fallback of setex goes on with its expire.
AdapterExpire(f) ==
    /\ ctor = "adapter"
    /\ acall.more
    /\ f \in Outcomes
    /\ LET o == NSetexExpire(nclient, client, store, acall.keys[1], TTL, now, f) IN
        /\ store' = o.st
        /\ faults' = faults - o.spent
        /\ acall' = [acall EXCEPT !.res = o.res, !.cmds = acall.cmds \o o.cmds,
                                  !.more = FALSE, !.f = f]
    /\ UNCHANGED <<akeys, scan, scopes, client, cfg, ctor, nclient, now, nextId,
                   meta, pc, loc, ret, log, fresh>>

\* -------------------------------------------------------- session store
\* The tests the operations make, by source line.
NoSessionId_NullOnly(sessionId) == sessionId = NullId
NoSessionId(sessionId) == sessionId \in {EmptyId, NullId}      \* !sessionId
Missing(data) == data = NoText                                \* !data
WithTtl_Never == FALSE
WithTtl_Always == TRUE
WithTtl == cfg.ttl # Disabled                                 \* config.ttl !== false
RollingOn_Always == cfg.ttl # Disabled
RollingOn_Never == FALSE
RollingOn_NoTtlTest == cfg.rolling
RollingOn_UnlessRenew == cfg.rolling /\ ~cfg.renew /\ cfg.ttl # Disabled
RollingOn == cfg.rolling /\ cfg.ttl # Disabled
RenewOn == cfg.renew /\ cfg.ttl # Disabled
RenewDue_NoLowerBound(ttl) == ttl < cfg.renewBefore
RenewDue(ttl) == ttl > 0 /\ ttl < cfg.renewBefore
\* What set, destroy and touch return when no session id is in scope.
NoMetaResult_False(op) == RFalse
NoMetaResult(op) == IF op = "set" THEN RUndefined ELSE RFalse
\* What get's catch block returns.
ParseFailure_Null == RNull
ParseFailure == RUndefined
\* The payload create stores: userData || config.defaultData().
defaultData == EmptyObj
CreateData_Default(userData) == defaultData
CreateData(userData) == IF Falsy(userData) THEN defaultData ELSE userData
\* normalizedClient.del(key): the store afterwards, the same for every kind.
NormDel_Lost(kind, st, k) == st
NormDel(kind, st, k) == RedisDel(st, k)

\* The expiry estimate of create and get: Date.now() + ttl * 1000, or one
\* year.  The model keeps every timestamp in seconds (the code's value is
\* 1000 times it, in milliseconds).
ExpiresTime_NoYear(t) == t + cfg.ttl
ExpiresTime(t) ==
    IF cfg.ttl # Disabled THEN t + cfg.ttl ELSE t + OneYear

\* The operation of scope sc returns r; l are its locals.
Done(sc, r, l) ==
    /\ pc' = [pc EXCEPT ![sc] = "idle"]
    /\ ret' = [ret EXCEPT ![sc] = r]
    /\ loc' = [loc EXCEPT ![sc] = Returned(l)]

\* The operation of scope sc goes on at label with locals l.
Goto(sc, label, l) ==
    /\ pc' = [pc EXCEPT ![sc] = label]
    /\ loc' = [loc EXCEPT ![sc] = l]
    /\ ret' = [ret EXCEPT ![sc] = RNone]

Failed(l) == [l EXCEPT !.faulted = TRUE]

\* store.get(sessionId), up to the reply of normalizedClient.get.
GetCall(sc, sid) ==
    /\ ctor = "store" /\ sc \in scopes /\ pc[sc] = "idle"
    /\ IF NoSessionId(sid)
       THEN /\ Done(sc, RNull, LocOf("get", sid))
            /\ log' = [log EXCEPT ![sc] = <<>>]
            /\ UNCHANGED faults
       ELSE \E f \in Outcomes :
            /\ Spend(f)
            /\ log' = [log EXCEPT ![sc] = <<"get">>]
            /\ IF f = "throw"
               THEN Done(sc, RThrew, Failed(LocOf("get", sid)))
               ELSE Goto(sc, "get_reply",
                         [LocOf("get", sid) EXCEPT
                            !.data = RedisGet(store, getKey(sid)),
                            !.saved = meta[sc],
                            !.expect = IF sid \in AllIds THEN fresh[sid]
                                       ELSE NoHist])
    /\ UNCHANGED <<acall, akeys, scan, scopes, client, cfg, ctor, nclient, now, store, nextId, meta, fresh>>

\* The EXPIRE that get issues under the rolling or the renew policy; its
\* reply is not looked at, a rejection is caught and turned into undefined.
GetExpire(sc, l) ==
    \E f \in Outcomes :
        /\ Spend(f)
        /\ log' = [log EXCEPT ![sc] = Append(log[sc], "expire")]
        /\ IF f = "throw"
           THEN /\ Done(sc, RUndefined, Failed(l))
                /\ UNCHANGED store
           ELSE /\ Done(sc, RValue(l.user), l)
                /\ store' = RedisExpire(store, getKey(l.sid), cfg.ttl, now)

\* store.get after the reply: parse, publish the metadata, apply the policy.
GetReply(sc) ==
    /\ pc[sc] = "get_reply"
    /\ LET data == loc[sc].data
           key == getKey(loc[sc].sid) IN
       IF Missing(data)
       THEN /\ Done(sc, RNull, loc[sc])
            /\ UNCHANGED <<store, faults, meta, log>>
       ELSE IF ParseThrows(data)
       THEN /\ Done(sc, ParseFailure, loc[sc])
            /\ UNCHANGED <<store, faults, meta, log>>
       ELSE LET userData == JSONparse(data)
                l == [loc[sc] EXCEPT !.user = userData, !.pub = TRUE] IN
            /\ meta' = [meta EXCEPT ![sc] =
                          [sessionId |-> l.sid, expiresTime |-> ExpiresTime(now)]]
            /\ IF RollingOn
               THEN GetExpire(sc, l)
               ELSE IF RenewOn
               THEN IF HasTtl(client)
                    THEN \E f \in Outcomes :
                         /\ Spend(f)
                         /\ log' = [log EXCEPT ![sc] = Append(log[sc], "ttl")]
                         /\ UNCHANGED store
                         /\ IF f = "throw"
                            THEN Done(sc, RUndefined, Failed(l))
                            ELSE Goto(sc, "get_ttl",
                                      [l EXCEPT !.ttl = RedisTtl(store, key, now)])
                    ELSE IF nclient = "raw"
                    THEN \* normalizedClient.ttl is not a function: TypeError, caught
                         /\ Done(sc, RUndefined, l)
                         /\ UNCHANGED <<store, faults, log>>
                    ELSE \* the adapter answers -2, which is not > 0
                         /\ Done(sc, RValue(userData), l)
                         /\ UNCHANGED <<store, faults, log>>
               ELSE /\ Done(sc, RValue(userData), l)
                    /\ UNCHANGED <<store, faults, log>>
    /\ UNCHANGED <<acall, akeys, scan, scopes, client, cfg, ctor, nclient, now, nextId, fresh>>

\* store.get under renew, after the reply of normalizedClient.ttl.
GetTtl(sc) ==
    /\ pc[sc] = "get_ttl"
    /\ LET ttl == loc[sc].ttl IN
       IF RenewDue(ttl)
       THEN GetExpire(sc, loc[sc])
       ELSE /\ Done(sc, RValue(loc[sc].user), loc[sc])
            /\ UNCHANGED <<store, faults, log>>
    /\ UNCHANGED <<acall, akeys, scan, scopes, client, cfg, ctor, nclient, now, nextId, meta, fresh>>

\* The fallback of setex goes on with its expire when its set was
\* acknowledged: if (setResult === 'OK').
SetAcked_Any(f) == f # "throw"
SetAcked(f) == f = "ok"

\* The first store command of normalizedClient.setex(key, ttl, text), or of
\* normalizedClient.set(key, text) when TTL is disabled.  op is "set" or
\* "create", arg the payload the operation was called with, l its locals.
\* A rejected command leaves result = "throw" for the operation's catch.
FirstWrite(sc, op, arg, l, text) ==
    LET key == getKey(l.sid)
        combined == WithTtl /\ HasSetex(nclient, client)
        fallback == WithTtl /\ ~HasSetex(nclient, client) IN
    \E f \in WriteOutcomes :
        /\ Spend(f)
        /\ log' = [log EXCEPT ![sc] = <<IF combined THEN "setex" ELSE "set">>]
        /\ store' = IF f # "ok" THEN store
                    ELSE IF combined THEN RedisSetex(store, key, cfg.ttl, text, now)
                    ELSE RedisSet(store, key, text)
        /\ fresh' = IF f # "ok" THEN fresh
                    ELSE [fresh EXCEPT ![l.sid] = Hist(op, arg)]
        /\ IF SetAcked(f) /\ fallback
           THEN Goto(sc, op \o "_expire", [l EXCEPT !.faulted = (f # "ok")])
           ELSE Goto(sc, op \o "_reply",
                    [l EXCEPT !.faulted = (f # "ok"),
                              !.result =
                                  IF f = "throw" THEN "throw"
                                  ELSE IF combined
                                  THEN NormSetex(nclient, WriteReply(client, f = "ok"))
                                  ELSE NormSet(nclient, WriteReply(client, f = "ok"))])

\* The second command of the set-then-expire fallback of setex.
SecondWrite(sc, op) ==
    /\ pc[sc] = op \o "_expire"
    /\ LET key == getKey(loc[sc].sid) IN
       \E f \in Outcomes :
        /\ Spend(f)
        /\ log' = [log EXCEPT ![sc] = Append(log[sc], "expire")]
        /\ store' = IF f = "ok" THEN RedisExpire(store, key, cfg.ttl, now) ELSE store
        /\ Goto(sc, op \o "_reply",
                [loc[sc] EXCEPT
                    !.faulted = (f # "ok"),
                    !.result = IF f = "throw" THEN "throw"
                               ELSE NormSetexFallback(nclient,
                                        ExpireReply(client, Present(store, key)))])
    /\ UNCHANGED <<acall, akeys, scan, scopes, client, cfg, ctor, nclient, now, nextId, meta, fresh>>

\* store.set(userData), up to its first store command.
SetCall(sc, userData) ==
    /\ ctor = "store" /\ sc \in scopes /\ pc[sc] = "idle"
    /\ LET sessionMeta == meta[sc]
           l == [LocOf("set", sessionMeta.sessionId) EXCEPT !.user = userData] IN
       IF ~HasMeta(sessionMeta) \/ StringifyThrows(userData)
       THEN /\ Done(sc, IF ~HasMeta(sessionMeta) THEN NoMetaResult("set") ELSE RUndefined, l)
            /\ log' = [log EXCEPT ![sc] = <<>>]
            /\ UNCHANGED <<store, faults, fresh>>
       ELSE FirstWrite(sc, "set", userData, l, JSONstringify(userData))
    /\ UNCHANGED <<acall, akeys, scan, scopes, client, cfg, ctor, nclient, now, nextId, meta>>

SetExpire(sc) == SecondWrite(sc, "set")

\* store.set after the reply of setex or set.
SetReply(sc) ==
    /\ pc[sc] = "set_reply"
    /\ LET l == loc[sc]
           success == l.result # "throw" /\ Truthy(l.result) IN
       /\ Done(sc, IF l.result = "throw" THEN RUndefined ELSE RBool(success), l)
       /\ fresh' = [fresh EXCEPT ![l.sid] =
                       IF success /\ @.by = "set" THEN [@ EXCEPT !.ok = TRUE] ELSE @]
    /\ UNCHANGED <<acall, akeys, scan, scopes, client, cfg, ctor, nclient, now, store, nextId, faults,
                   meta, log>>

\* create's test of the write: if (result), not reached after a rejection.
CreateOk_Always(result) == TRUE
CreateOk(result) == result # "throw" /\ Truthy(result)

\* store.create(userData), up to its first store command.
CreateCall(sc, userData) ==
    /\ ctor = "store" /\ sc \in scopes /\ pc[sc] = "idle"
    /\ nextId <= MaxIds
    /\ nextId' = nextId + 1
    /\ LET sessionId == nextId
           data == CreateData(userData)
           l == [LocOf("create", sessionId) EXCEPT !.user = data] IN
       IF StringifyThrows(data)
       THEN /\ Done(sc, RUndefined, l)
            /\ log' = [log EXCEPT ![sc] = <<>>]
            /\ UNCHANGED <<store, faults, fresh>>
       ELSE FirstWrite(sc, "create", userData, l, JSONstringify(data))
    /\ UNCHANGED <<acall, akeys, scan, scopes, client, cfg, ctor, nclient, now, meta>>

CreateExpire(sc) == SecondWrite(sc, "create")

\* store.create after the reply of setex or set.
CreateReply(sc) ==
    /\ pc[sc] = "create_reply"
    /\ LET l == loc[sc] IN
       IF CreateOk(l.result)
       THEN /\ meta' = [meta EXCEPT ![sc] =
                          [sessionId |-> l.sid, expiresTime |-> ExpiresTime(now)]]
            /\ Done(sc, RValue(l.user), [l EXCEPT !.pub = TRUE])
            /\ fresh' = [fresh EXCEPT ![l.sid] =
                            IF @.by = "create" THEN [@ EXCEPT !.ok = TRUE, !.t = now]
                            ELSE @]
       ELSE /\ Done(sc, RUndefined, l)
            /\ UNCHANGED <<meta, fresh>>
    /\ UNCHANGED <<acall, akeys, scan, scopes, client, cfg, ctor, nclient, now, store, nextId, faults, log>>

\* store.destroy()
Destroy(sc) ==
    /\ ctor = "store" /\ sc \in scopes /\ pc[sc] = "idle"
    /\ LET sessionMeta == meta[sc]
           key == getKey(sessionMeta.sessionId)
           l == LocOf("destroy", sessionMeta.sessionId) IN
       IF ~HasMeta(sessionMeta)
       THEN /\ Done(sc, NoMetaResult("destroy"), l)
            /\ log' = [log EXCEPT ![sc] = <<>>]
            /\ UNCHANGED <<store, faults, meta, fresh>>
       ELSE \E f \in Outcomes :
            /\ Spend(f)
            /\ log' = [log EXCEPT ![sc] = <<"del">>]
            /\ IF f = "throw"
               THEN /\ Done(sc, RUndefined, Failed(l))
                    /\ UNCHANGED <<store, meta, fresh>>
               ELSE /\ store' = NormDel(nclient, store, key)
                    /\ meta' = [meta EXCEPT ![sc] = NoMeta]
                    /\ Done(sc, RBool(Present(store, key)), l)
                    /\ fresh' = [fresh EXCEPT ![sessionMeta.sessionId] =
                                    Hist("destroy", Undefined)]
    /\ UNCHANGED <<acall, akeys, scan, scopes, client, cfg, ctor, nclient, now, nextId>>

\* The metadata touch publishes: {...sessionMeta, expiresTime}.
TouchMeta_Stale(sessionMeta, t) == sessionMeta
TouchMeta(sessionMeta, t) == [sessionMeta EXCEPT !.expiresTime = t + cfg.ttl]

\* store.touch(), up to the reply of normalizedClient.expire.
TouchCall(sc) ==
    /\ ctor = "store" /\ sc \in scopes /\ pc[sc] = "idle"
    /\ LET sessionMeta == meta[sc]
           key == getKey(sessionMeta.sessionId)
           l == [LocOf("touch", sessionMeta.sessionId) EXCEPT !.saved = sessionMeta] IN
       IF ~HasMeta(sessionMeta) \/ ~WithTtl
       THEN /\ Done(sc, IF ~HasMeta(sessionMeta) THEN NoMetaResult("touch") ELSE RFalse, l)
            /\ log' = [log EXCEPT ![sc] = <<>>]
            /\ UNCHANGED <<store, faults, fresh>>
       ELSE \E f \in Outcomes :
            /\ Spend(f)
            /\ log' = [log EXCEPT ![sc] = <<"expire">>]
            /\ IF f = "throw"
               THEN /\ Done(sc, RUndefined, Failed(l))
                    /\ UNCHANGED <<store, fresh>>
               ELSE /\ store' = RedisExpire(store, key, cfg.ttl, now)
                    /\ fresh' = [fresh EXCEPT ![sessionMeta.sessionId] =
                                    IF Present(store, key) /\ @.by = "create"
                                    THEN Hist("touch", @.p) ELSE @]
                    /\ Goto(sc, "touch_reply",
                            [l EXCEPT !.result =
                                NormExpire(nclient, ExpireReply(client, Present(store, key)))])
    /\ UNCHANGED <<acall, akeys, scan, scopes, client, cfg, ctor, nclient, now, nextId, meta>>

\* store.touch after the reply.
TouchReply(sc) ==
    /\ pc[sc] = "touch_reply"
    /\ IF Truthy(loc[sc].result)
       THEN /\ meta' = [meta EXCEPT ![sc] = TouchMeta(loc[sc].saved, now)]
            /\ Done(sc, RTrue, [loc[sc] EXCEPT !.pub = TRUE])
       ELSE /\ Done(sc, RFalse, loc[sc])
            /\ UNCHANGED meta
    /\ UNCHANGED <<acall, akeys, scan, scopes, client, cfg, ctor, nclient, now, store, nextId, faults,
                   log, fresh>>

\* ------------------------------------------------------------ the program
Next ==
    \/ NewNormalizedClient
    \/ NewSessionStore
    \/ Tick
    \/ \E k \in Keys : RawWrite(k)
    \/ \E k \in Keys : RawDel(k)
    \/ \E sc \in Scopes : NewScope(sc)
    \/ \E sc \in Scopes, sid \in AllIds \cup {EmptyId, NullId} : GetCall(sc, sid)
    \/ \E sc \in Scopes : GetReply(sc)
    \/ \E sc \in Scopes : GetTtl(sc)
    \/ \E sc \in Scopes, p \in SetPayloads : SetCall(sc, p)
    \/ \E sc \in Scopes : SetExpire(sc)
    \/ \E sc \in Scopes : SetReply(sc)
    \/ \E sc \in Scopes, p \in CreatePayloads : CreateCall(sc, p)
    \/ \E sc \in Scopes : CreateExpire(sc)
    \/ \E sc \in Scopes : CreateReply(sc)
    \/ \E sc \in Scopes : Destroy(sc)
    \/ \E sc \in Scopes : TouchCall(sc)
    \/ \E sc \in Scopes : TouchReply(sc)
    \/ \E c \in ACalls, f \in {"ok", "throw", "nack"} : AdapterCall(c, f)
    \/ \E f \in {"ok", "throw"} : AdapterExpire(f)
    \/ \E match \in {MatchAll, MatchPrefix}, count \in ScanCounts :
            ScanStart(match, count)
    \/ \E f \in {"ok", "throw"} : ScanPage(f)
    \/ ScanTake
    \/ ScanStop

Fixed == [ttl |-> TTL, rolling |-> FALSE, renew |-> FALSE, renewBefore |-> RenewBefore]
Rolling == [Fixed EXCEPT !.rolling = TRUE]
Renew == [Fixed EXCEPT !.renew = TRUE]
RollingRenew == [Fixed EXCEPT !.rolling = TRUE, !.renew = TRUE]
NoTtl == [Fixed EXCEPT !.ttl = Disabled]
NoTtlRolling == [NoTtl EXCEPT !.rolling = TRUE]
NoTtlRenew == [NoTtl EXCEPT !.renew = TRUE]

\* Every specification holds the pair <<IoRedisBare, Renew>>, the one setup
\* in which each step of the program can happen.
Init == Setup({<<IoRedisBare, Renew>>, <<IoRedisFull, Rolling>>,
               <<NodeRedisFull, NoTtl>>, <<Unsupported, Fixed>>,
               <<Normalized, Fixed>>, <<NodeRedisBare, Fixed>>})
Spec == Init /\ [][Next]_vars

InitFixed == Setup({<<IoRedisBare, Renew>>, <<IoRedisBare, Fixed>>,
                    <<IoRedisFull, Fixed>>, <<NodeRedisFull, Fixed>>})
SpecFixed == InitFixed /\ [][Next]_vars

InitRolling == Setup({<<IoRedisBare, Renew>>, <<IoRedisBare, Rolling>>,
                      <<IoRedisFull, Rolling>>, <<NodeRedisFull, Rolling>>,
                      <<IoRedisFull, RollingRenew>>})
SpecRolling == InitRolling /\ [][Next]_vars

\* Renew, also over clients without a ttl function: one that goes through
\* the adapter, and one with setex that is used as it is.
InitRenew == Setup({<<IoRedisBare, Renew>>, <<IoRedisFull, Renew>>,
                    <<NodeRedisFull, Renew>>, <<NodeRedisBare, Renew>>,
                    <<Client({"scan", "mget", "setex"}, "int"), Renew>>})
SpecRenew == InitRenew /\ [][Next]_vars

\* Both shapes, with callers that address two keys.
InitAdapter == SetupWith({<<IoRedisBare, Renew>>},
                         {<<IoRedisFull, Fixed>>, <<NodeRedisBare, Fixed>>,
                          <<NodeRedisFull, Fixed>>})
SpecAdapter == InitAdapter /\ [][Next]_vars

\* Two requests at the same time: writes under the fixed policy, with and
\* without a combined setex; reads under rolling and under renew.
InitRace == SetupAll({<<IoRedisBare, Renew>>}, {},
                     {<<IoRedisFull, Fixed>>, <<IoRedisBare, Fixed>>})
SpecRace == InitRace /\ [][Next]_vars

InitRaceGet == SetupAll({<<IoRedisBare, Renew>>}, {},
                        {<<IoRedisFull, Rolling>>, <<IoRedisFull, Renew>>})
SpecRaceGet == InitRaceGet /\ [][Next]_vars

\* Clients with every set of the methods that shape detection looks at.
InitShapes ==
    Setup({<<IoRedisBare, Renew>>} \cup
          {<<Client(m, "int"), Fixed>> :
              m \in SUBSET {"scan", "mget", "scanIterator", "mGet"}})
SpecShapes == InitShapes /\ [][Next]_vars

\* The store holds a record of someone else, with a TTL, when the session
\* store is made.
InitFrame ==
    SetupFrom({<<IoRedisBare, Renew>>, <<IoRedisFull, Rolling>>,
               <<NodeRedisFull, Fixed>>}, {}, {},
              [EmptyStore EXCEPT ![OtherKey] = [val |-> Json(P2), exp |-> TTL]])
SpecFrame == InitFrame /\ [][Next]_vars

InitNoTtl == Setup({<<IoRedisBare, Renew>>, <<IoRedisBare, NoTtlRolling>>,
                    <<IoRedisFull, NoTtlRenew>>, <<NodeRedisFull, NoTtl>>})
SpecNoTtl == InitNoTtl /\ [][Next]_vars

TypeOK ==
    /\ now \in 0..MaxTime
    /\ nextId \in 1..(MaxIds + 1)
    /\ faults \in 0..MaxFaults
    /\ \A sc \in Scopes : pc[sc] \in {"idle", "get_reply", "get_ttl", "set_expire",
            "set_reply", "create_expire", "create_reply", "touch_reply"}

\* ------------------------------------------------------------- properties
\* A payload create and get must carry over: a structured value that
\* survives serialization (no undefined-valued field).
ValidPayload(p) == p.k = "obj" /\ \A fv \in p.f : fv[2] # "undef"

\* An operation starts in scope sc at this step.
Calls(sc) ==
    /\ pc[sc] = "idle"
    /\ <<pc[sc], loc[sc], ret[sc], log[sc]>>' # <<pc[sc], loc[sc], ret[sc], log[sc]>>

\* The get of scope sc returns at this step, none of its store calls having
\* been rejected.
GetReturns(sc) ==
    /\ pc[sc] \in {"get_reply", "get_ttl"}
    /\ pc'[sc] = "idle"
    /\ ~loc'[sc].faulted

\* C1: for every valid payload P, once create(P) has succeeded under id s, a
\* get(s) that reads the record before any set, destroy, foreign write or
\* expiry of s returns a value equal to P.
C1_CreateThenGet ==
    [][\A sc \in Scopes :
        (/\ GetReturns(sc)
         /\ loc[sc].expect.by = "create"
         /\ loc[sc].expect.ok
         /\ ValidPayload(loc[sc].expect.p))
        => ret'[sc] = RValue(loc[sc].expect.p)]_vars

C1_Witness ==
    \E sc \in Scopes :
        /\ pc[sc] = "idle" /\ loc[sc].op = "get" /\ loc[sc].sid \in Sids
        /\ ret[sc] = RValue(P1)
        /\ fresh[loc[sc].sid].by = "create"
        /\ fresh[loc[sc].sid].ok
        /\ fresh[loc[sc].sid].p = P1

\* C2: set(Q) in a scope with metadata, its store calls accepted and its
\* record not disturbed by others, returns true; with a numeric TTL the
\* write that makes set succeed leaves the record with the full TTL; and
\* a get that reads the record of a successful set(Q) returns exactly Q.
C2_SetReplaces ==
    [][\A sc \in Scopes :
        LET sid == loc[sc].sid
            key == getKey(sid) IN
        /\ (/\ pc[sc] = "set_reply" /\ pc'[sc] = "idle"
            /\ ~loc[sc].faulted
            /\ fresh[sid].by = "set")
           => ret'[sc] = RTrue
        /\ (/\ pc[sc] \in {"idle", "set_expire"} /\ pc'[sc] = "set_reply"
            /\ loc'[sc].result \in {"OK", "n1", "bT"}
            /\ cfg.ttl # Disabled)
           => /\ Present(store', getKey(loc'[sc].sid))
              /\ store'[getKey(loc'[sc].sid)].exp = now + cfg.ttl
        /\ (/\ GetReturns(sc)
            /\ loc[sc].expect.by = "set"
            /\ loc[sc].expect.ok)
           => ret'[sc] = RValue(loc[sc].expect.p)]_vars

C2_Witness ==
    \E sc \in Scopes :
        /\ pc[sc] = "idle" /\ loc[sc].op = "get" /\ loc[sc].sid \in Sids
        /\ cfg.ttl # Disabled
        /\ ret[sc] = RValue(P2)
        /\ fresh[loc[sc].sid].by = "set"
        /\ fresh[loc[sc].sid].ok
        /\ store[getKey(loc[sc].sid)].val = Json(P2)
        /\ store[getKey(loc[sc].sid)].exp # NoExpiry

\* C3: once destroy has deleted the record of s, a get(s) that reads before
\* any later write to s returns null.
C3_DestroyThenGet ==
    [][\A sc \in Scopes :
        (GetReturns(sc) /\ loc[sc].expect.by = "destroy")
        => ret'[sc] = RNull]_vars

C3_Witness ==
    \E sc \in Scopes :
        /\ pc[sc] = "idle" /\ loc[sc].op = "get" /\ loc[sc].sid \in Sids
        /\ ret[sc] = RNull
        /\ fresh[loc[sc].sid].by = "destroy"

\* The fixed policy: a numeric TTL with neither rolling nor renew.
FixedPolicy == cfg.ttl # Disabled /\ ~cfg.rolling /\ ~cfg.renew

\* C4: under the fixed policy a record made by a create that returned at
\* time t, and not written or touched since, carries an expiry no later
\* than t + ttl, so it is gone at every time >= t + ttl; no step of a get
\* changes the store; and a get that finds the record expired returns null.
C4_FixedExpires ==
    /\ [](FixedPolicy =>
            \A s \in Sids :
                (fresh[s].by = "create" /\ fresh[s].ok /\ Present(store, getKey(s)))
                => /\ store[getKey(s)].exp # NoExpiry
                   /\ store[getKey(s)].exp <= fresh[s].t + cfg.ttl
                   /\ now < fresh[s].t + cfg.ttl)
    /\ [][FixedPolicy =>
            \A sc \in Scopes :
                /\ \/ pc[sc] \in {"get_reply", "get_ttl"} /\ pc'[sc] # pc[sc]
                   \/ Calls(sc) /\ loc'[sc].op = "get"
                   => store' = store
                /\ (GetReturns(sc) /\ loc[sc].expect.by = "expired")
                   => ret'[sc] = RNull]_vars

C4_Witness ==
    /\ FixedPolicy
    /\ \E sc \in Scopes :
        /\ pc[sc] = "idle" /\ loc[sc].op = "get" /\ loc[sc].sid \in Sids
        /\ ret[sc] = RNull
        /\ fresh[loc[sc].sid].by = "expired"
        /\ now >= cfg.ttl

\* C5: with rolling on and a numeric TTL, a get that returns the payload
\* leaves the record, if it is still there, with the full TTL counted from
\* the time of the reset.
C5_RollingResets ==
    [][(cfg.rolling /\ cfg.ttl # Disabled) =>
        \A sc \in Scopes :
            (/\ GetReturns(sc)
             /\ ret'[sc].r = "value"
             /\ Present(store', getKey(loc[sc].sid)))
            => store'[getKey(loc[sc].sid)].exp = now + cfg.ttl]_vars

\* A record read again and again lives past creation time + ttl.
C5_Witness ==
    /\ cfg.rolling /\ cfg.ttl # Disabled
    /\ \E sc \in Scopes :
        /\ pc[sc] = "idle" /\ loc[sc].op = "get" /\ loc[sc].sid \in Sids
        /\ ret[sc] = RValue(P1)
        /\ fresh[loc[sc].sid].by = "create" /\ fresh[loc[sc].sid].ok
        /\ now > fresh[loc[sc].sid].t + cfg.ttl
        /\ store[getKey(loc[sc].sid)].exp = now + cfg.ttl

\* The renew policy with a client whose ttl reaches the store.
RenewPolicy == cfg.renew /\ ~cfg.rolling /\ cfg.ttl # Disabled

\* C6 as stated: under renew, a get resets the TTL to the full value if and
\* only if the remaining TTL it read is below renewBefore.
C6_Original ==
    [][RenewPolicy =>
        \A sc \in Scopes :
            (/\ pc[sc] = "get_ttl" /\ GetReturns(sc)
             /\ Present(store, getKey(loc[sc].sid)))
            => IF loc[sc].ttl < cfg.renewBefore
               THEN store'[getKey(loc[sc].sid)].exp = now + cfg.ttl
               ELSE store' = store]_vars

\* C6 amended: under renew, a get resets the TTL to the full value if and
\* only if the value it read is greater than 0 and below renewBefore; on
\* any other reply (0, the no-TTL reply -1, the absent reply -2, or a
\* remaining TTL of renewBefore or more) it issues no EXPIRE and leaves
\* the store unchanged.
C6_RenewBelowThreshold ==
    [][RenewPolicy =>
        \A sc \in Scopes :
            (pc[sc] = "get_ttl" /\ GetReturns(sc))
            => IF loc[sc].ttl > 0 /\ loc[sc].ttl < cfg.renewBefore
               THEN /\ log'[sc] = Append(log[sc], "expire")
                    /\ Present(store, getKey(loc[sc].sid))
                        => store'[getKey(loc[sc].sid)].exp = now + cfg.ttl
               ELSE /\ log'[sc] = log[sc]
                    /\ store' = store]_vars

C6_Witness ==
    /\ RenewPolicy
    /\ \E sc \in Scopes :
        /\ pc[sc] = "idle" /\ loc[sc].op = "get" /\ loc[sc].sid \in Sids
        /\ log[sc] = <<"get", "ttl", "expire">>
        /\ ret[sc].r = "value"
        /\ store[getKey(loc[sc].sid)].exp = now + cfg.ttl
        /\ now > 0

\* C7: get called with the empty or the null session id returns null at
\* once, issues no store command and changes neither the metadata nor the
\* store.
C7_EmptyIdNoRoundTrip ==
    [][\A sc \in Scopes :
        (/\ Calls(sc)
         /\ loc'[sc].op = "get"
         /\ loc'[sc].sid \in {EmptyId, NullId})
        => /\ pc'[sc] = "idle"
           /\ ret'[sc] = RNull
           /\ log'[sc] = <<>>
           /\ meta' = meta
           /\ store' = store]_vars

C7_Witness ==
    \E sc \in Scopes :
        /\ pc[sc] = "idle" /\ loc[sc].op = "get" /\ loc[sc].sid = EmptyId
        /\ ret[sc] = RNull /\ log[sc] = <<>>
        /\ HasMeta(meta[sc])
        /\ Present(store, getKey(meta[sc].sessionId))

C9_NoMetaNoOp ==
    [][\A sc \in Scopes :
        (/\ Calls(sc)
         /\ meta[sc].sessionId \in {EmptyId, NullId}
         /\ loc'[sc].op \in {"set", "destroy", "touch"})
        => /\ pc'[sc] = "idle"
           /\ ret'[sc] = (IF loc'[sc].op = "set" THEN RUndefined ELSE RFalse)
           /\ log'[sc] = <<>>
           /\ store' = store]_vars

C9_Witness ==
    \E sc \in Scopes :
        /\ pc[sc] = "idle" /\ loc[sc].op = "set"
        /\ meta[sc] = NoMeta
        /\ ret[sc] = RUndefined /\ log[sc] = <<>>
        /\ \E k \in Keys : Present(store, k)

\* The client matches neither recognized shape.
NeitherShape(cl) ==
    /\ ~({"scan", "mget"} \subseteq cl.m /\ "scanIterator" \notin cl.m)
    /\ ~({"scanIterator", "mGet"} \subseteq cl.m)

\* C10: createNormalizedRedisClient over a client of neither recognized
\* shape throws, and no normalized client comes out of it.
C10_UnsupportedThrows ==
    (ctor \in {"adapter", "adapter_threw"} /\ NeitherShape(client))
    => (ctor = "adapter_threw" /\ nclient = "none")

C10_Witness ==
    /\ ctor = "adapter_threw"
    /\ NeitherShape(client)
    /\ nclient = "none"

\* C11 as stated: no session store is returned for a client that matches
\* neither recognized shape.
C11_Original ==
    NeitherShape(client) => ctor # "store"

\* C11 amended: createRedisSessionStore over a client that matches neither
\* recognized shape and has no setex function throws and returns no store;
\* a client that has a setex function is taken as already normalized, and a
\* store over it is returned whatever its shape.
C11_NeitherShapeNoSetexThrows ==
    ctor \in {"store", "store_threw"} =>
        /\ (NeitherShape(client) /\ "setex" \notin client.m)
            => (ctor = "store_threw" /\ nclient = "none")
        /\ "setex" \in client.m => (ctor = "store" /\ nclient = "raw")

C11_Witness ==
    /\ ctor = "store_threw"
    /\ NeitherShape(client)
    /\ "setex" \notin client.m

\* The client of shape A and the client of shape B with the capabilities and
\* the reply encoding of cl.
ShapeA(cl) ==
    Client((cl.m \ {"scanIterator", "mGet", "setEx"}) \cup {"scan", "mget"}
               \cup (IF {"setex", "setEx"} \cap cl.m # {} THEN {"setex"} ELSE {}),
           cl.enc)
ShapeB(cl) ==
    Client((cl.m \ {"scan", "mget", "setex"}) \cup {"scanIterator", "mGet"}
               \cup (IF {"setex", "setEx"} \cap cl.m # {} THEN {"setEx"} ELSE {}),
           cl.enc)

\* The step the normalized client of this kind over cl takes where the
\* modelled one takes its step.
StepOf(kind, cl) ==
    IF acall.more
    THEN NSetexExpire(kind, cl, store, acall.keys[1], TTL, now, acall'.f)
    ELSE NCall(kind, cl, store, now,
               ACall(acall'.op, acall'.keys, acall'.v), acall'.f)

\* C12: at every step of every call on the normalized client, the client
\* built over the shape-A client and the one built over the shape-B client
\* with the same capabilities, on the same store contents and with the same
\* underlying replies, resolve to the same result and leave the same store.
C12_SameResults ==
    [][(ctor = "adapter" /\ acall' # acall) =>
        LET a == StepOf("ioredis", ShapeA(client))
            b == StepOf("node", ShapeB(client)) IN
        /\ a.res = b.res
        /\ a.more = b.more
        /\ a.st = b.st]_vars

\* C13: the return values and the metadata of the session store depend on
\* the operation, the store contents and the acknowledgements of the store
\* alone, not on the shape or the reply encoding of the client the store was
\* built from: a write or an expire counts as successful exactly when the
\* store acknowledged it, whichever client reports it, and create, set,
\* touch, destroy and get return and publish accordingly.
C13_ShapeIndependent ==
    [][\A sc \in Scopes :
        LET l == loc[sc]
            n == loc'[sc]
            entered == pc'[sc] # pc[sc] IN
        \* the write of set and create
        /\ (entered /\ pc'[sc] \in {"set_reply", "create_reply"})
            => (Truthy(n.result)
                <=> /\ ~n.faulted
                    /\ pc[sc] \in {"set_expire", "create_expire"}
                        => Present(store, getKey(n.sid)))
        \* the expire of touch
        /\ (entered /\ pc'[sc] = "touch_reply")
            => (Truthy(n.result) <=> Present(store, getKey(n.sid)))
        \* what set, create and touch return and publish
        /\ (pc[sc] = "set_reply" /\ entered /\ l.result # "throw")
            => ret'[sc] = RBool(Truthy(l.result)) /\ meta' = meta
        /\ (pc[sc] = "create_reply" /\ entered)
            => IF Truthy(l.result)
               THEN /\ ret'[sc] = RValue(l.user)
                    /\ meta'[sc] = [sessionId |-> l.sid,
                                    expiresTime |-> ExpiresTime(now)]
               ELSE ret'[sc] = RUndefined /\ meta' = meta
        /\ (pc[sc] = "touch_reply" /\ entered)
            => IF Truthy(l.result)
               THEN /\ ret'[sc] = RTrue
                    /\ meta'[sc] = [sessionId |-> l.sid,
                                    expiresTime |-> now + cfg.ttl]
               ELSE ret'[sc] = RFalse /\ meta' = meta
        \* destroy
        /\ (Calls(sc) /\ n.op = "destroy" /\ HasMeta(meta[sc]) /\ ~n.faulted)
            => /\ ret'[sc] = RBool(Present(store, getKey(n.sid)))
               /\ ~Present(store', getKey(n.sid))
               /\ meta'[sc] = NoMeta
        \* get
        /\ (GetReturns(sc) /\ ~Missing(l.data) /\ ~ParseThrows(l.data))
            => /\ ret'[sc] = RValue(JSONparse(l.data))
               /\ meta'[sc].sessionId = l.sid]_vars

\* A store built from a shape-B client, whose expire replies a boolean, has
\* answered the touch of a present record with true.
C13_Witness ==
    /\ nclient = "node"
    /\ cfg.ttl # Disabled
    /\ \E sc \in Scopes :
        /\ pc[sc] = "idle" /\ loc[sc].op = "touch"
        /\ ret[sc] = RTrue
        /\ meta[sc].sessionId = loc[sc].sid
        /\ client.enc = "bool"
        /\ Present(store, getKey(loc[sc].sid))

\* C14: no operation of the session store throws: whatever store call,
\* serialization or deserialization failed, the operation has returned a
\* value to its caller and raised nothing.
C14_NeverThrows ==
    \A sc \in Scopes : ret[sc] # RThrew

\* C15: destroy called with metadata in scope leaves the scope without
\* metadata, whether the delete removed the key, found it absent or failed.
C15_DestroyClearsMeta ==
    [][\A sc \in Scopes :
        (Calls(sc) /\ loc'[sc].op = "destroy" /\ HasMeta(meta[sc]))
        => meta'[sc] = NoMeta]_vars

\* C16: destroy returns true if and only if its delete removed a key, and a
\* destroy that follows a destroy in the same scope returns false without a
\* store command.
C16_DestroyTwice ==
    [][\A sc \in Scopes :
        (Calls(sc) /\ loc'[sc].op = "destroy")
        => /\ ret'[sc] = RTrue
               <=> \E k \in Keys : Present(store, k) /\ ~Present(store', k)
           /\ loc[sc].op = "destroy"
               => (ret'[sc] = RFalse /\ log'[sc] = <<>> /\ store' = store)]_vars

\* C17: with TTL disabled, touch returns false at once, with or without
\* metadata in scope: it issues no store command and changes neither the
\* store nor the metadata.
C17_TouchNoTtl ==
    [][cfg.ttl = Disabled =>
        \A sc \in Scopes :
            (Calls(sc) /\ loc'[sc].op = "touch")
            => /\ pc'[sc] = "idle"
               /\ ret'[sc] = RFalse
               /\ log'[sc] = <<>>
               /\ store' = store
               /\ meta' = meta]_vars

C17_Witness ==
    /\ cfg.ttl = Disabled
    /\ \E sc \in Scopes :
        /\ pc[sc] = "idle" /\ loc[sc].op = "touch"
        /\ ret[sc] = RFalse /\ log[sc] = <<>>
        /\ HasMeta(meta[sc])
        /\ Present(store, getKey(meta[sc].sessionId))

\* C18: with a numeric TTL and metadata for id s in scope, the expire of
\* touch, when the store accepts it, gives a present record of s the full
\* TTL and changes nothing else; touch then returns true and republishes
\* the metadata with the same session id and a new expiry estimate.  When
\* the record of s is absent, the expire changes nothing, touch returns
\* false and the metadata stays as it was.
C18_TouchResets ==
    [][cfg.ttl # Disabled =>
        \A sc \in Scopes :
            LET sid == meta[sc].sessionId
                key == getKey(sid) IN
            /\ (Calls(sc) /\ loc'[sc].op = "touch" /\ HasMeta(meta[sc])
                    /\ ~loc'[sc].faulted)
                => /\ pc'[sc] = "touch_reply"
                   /\ log'[sc] = <<"expire">>
                   /\ meta' = meta
                   /\ IF Present(store, key)
                      THEN store' = [store EXCEPT ![key].exp = now + cfg.ttl]
                      ELSE store' = store
                   /\ Truthy(loc'[sc].result) <=> Present(store, key)
            /\ (pc[sc] = "touch_reply" /\ pc'[sc] = "idle")
                => /\ store' = store
                   /\ IF Truthy(loc[sc].result)
                      THEN /\ ret'[sc] = RTrue
                           /\ meta'[sc].sessionId = meta[sc].sessionId
                           /\ meta'[sc].expiresTime = now + cfg.ttl
                      ELSE /\ ret'[sc] = RFalse
                           /\ meta' = meta]_vars

\* A touch has returned true for a record that would have expired by now
\* without it.
C18_Witness ==
    /\ cfg.ttl # Disabled /\ ~cfg.rolling
    /\ \E sc \in Scopes :
        /\ pc[sc] = "idle" /\ loc[sc].op = "touch"
        /\ ret[sc] = RTrue
        /\ meta[sc].sessionId = loc[sc].sid
        /\ meta[sc].expiresTime = now + cfg.ttl
        /\ store[getKey(loc[sc].sid)].exp = now + cfg.ttl
        /\ now > 0

\* C19: create publishes the metadata (the generated id and the expiry
\* estimate) and returns the payload exactly when its write was reported
\* successful; when serialization throws, or a store call is rejected or
\* answered with a failure, create returns undefined and the metadata in
\* scope is what it was before the call.  No earlier step of create touches
\* the metadata.
C19_CreatePublishes ==
    [][\A sc \in Scopes :
        LET l == loc[sc] IN
        /\ (Calls(sc) /\ loc'[sc].op = "create")
            => /\ meta' = meta
               /\ pc'[sc] = "idle" => (ret'[sc] = RUndefined /\ store' = store)
        /\ (pc[sc] = "create_expire" /\ pc'[sc] # pc[sc]) => meta' = meta
        /\ (pc[sc] = "create_reply" /\ pc'[sc] = "idle")
            => IF ~l.faulted /\ Truthy(l.result)
               THEN /\ ret'[sc] = RValue(l.user)
                    /\ meta'[sc] = [sessionId |-> l.sid,
                                    expiresTime |-> ExpiresTime(now)]
               ELSE /\ ret'[sc] = RUndefined
                    /\ meta' = meta]_vars

\* A create has failed at the expire of the set-then-expire fallback: it
\* returned undefined and published nothing, with its record in the store.
C19_Witness ==
    \E sc \in Scopes :
        /\ pc[sc] = "idle" /\ loc[sc].op = "create" /\ loc[sc].faulted
        /\ ret[sc] = RUndefined
        /\ meta[sc] = NoMeta
        /\ log[sc] = <<"set", "expire">>
        /\ Present(store, getKey(loc[sc].sid))

\* C20: with TTL disabled, every record in the store of a session store
\* carries no expiry, whoever wrote it; a get issues no expire and no ttl command, also with
\* rolling or renew set; and a record leaves the store only by a delete,
\* never by the passing of time.
C20_NoTtlNoExpiry ==
    /\ []((ctor = "store" /\ cfg.ttl = Disabled) =>
            \A k \in Keys : Present(store, k) => store[k].exp = NoExpiry)
    /\ [][(ctor = "store" /\ cfg.ttl = Disabled) =>
            /\ \A sc \in Scopes :
                /\ loc'[sc].op = "get"
                    => \A i \in 1..Len(log'[sc]) : log'[sc][i] = "get"
                /\ (Calls(sc) /\ loc'[sc].op \in {"create", "set"})
                    => \A i \in 1..Len(log'[sc]) : log'[sc][i] = "set"
            /\ now' # now => store' = store
            /\ \A s \in Sids :
                (Present(store, getKey(s)) /\ ~Present(store', getKey(s)))
                => fresh'[s].by \in {"destroy", "raw"}]_vars

\* With TTL disabled and rolling or renew set, a get returns a record
\* created more than ttl seconds ago.
C20_Witness ==
    /\ cfg.ttl = Disabled
    /\ cfg.rolling \/ cfg.renew
    /\ \E sc \in Scopes :
        /\ pc[sc] = "idle" /\ loc[sc].op = "get" /\ loc[sc].sid \in Sids
        /\ ret[sc] = RValue(P1)
        /\ log[sc] = <<"get">>
        /\ fresh[loc[sc].sid].by = "create" /\ fresh[loc[sc].sid].ok
        /\ now > fresh[loc[sc].sid].t + TTL
        /\ store[getKey(loc[sc].sid)].exp = NoExpiry

\* A call on the normalized client resolves at this step (a rejection
\* included); for setex that is its last underlying command.
AResolves ==
    /\ ctor = "adapter"
    /\ acall' # acall
    /\ ~acall'.more

\* The store acknowledged the command behind the call resolving at this
\* step: the write was accepted, the expire found its key.
Acknowledged ==
    /\ acall'.f = "ok"
    /\ (acall'.op = "expire" \/ acall.more)
        => Present(store, acall'.keys[1])

\* C21: every set, setex and expire call on the normalized client that
\* resolves without a rejection resolves to exactly true or false, on every
\* path, the set-then-expire fallback included, and to true if and only if
\* the store acknowledged success.
C21_ExactBooleans ==
    [][(AResolves /\ acall'.op \in {"set", "setex", "expire"}
            /\ acall'.res # AThrew)
        => /\ acall'.res.s \in {"bT", "bF"}
           /\ acall'.res.s = "bT" <=> Acknowledged]_vars

\* C22: over a client without a combined set-with-expiry command, setex
\* issues set and then expire.  A set that is rejected or refused ends the
\* call with a failure and no expire is issued.  After an acknowledged set,
\* an expire that is rejected or finds no key makes setex report failure
\* (false, a falsy reply or a rejection) and changes nothing in the store:
\* the value of the first step, if still there, stays without a TTL.
C22_FallbackPartial ==
    [][(/\ ctor = "adapter" /\ acall' # acall
        /\ acall'.op = "setex" /\ ~HasSetex(nclient, client))
        => LET k == acall'.keys[1] IN
           IF ~acall.more
           THEN /\ acall'.cmds = <<"set">>
                /\ IF acall'.f = "ok"
                   THEN /\ acall'.more
                        /\ store' = RedisSet(store, k, acall'.v)
                   ELSE /\ ~acall'.more
                        /\ ~Truthy(acall'.res.s)
                        /\ store' = store
           ELSE /\ acall'.cmds = <<"set", "expire">>
                /\ ~acall'.more
                /\ ~(acall'.f = "ok" /\ Present(store, k))
                    => /\ ~Truthy(acall'.res.s)
                       /\ store' = store
                       /\ Present(store, k) => store'[k].exp = NoExpiry]_vars

\* The expire of the fallback was rejected: setex failed and the value it
\* wrote is in the store without a TTL.
C22_Witness ==
    /\ ctor = "adapter" /\ ~HasSetex(nclient, client)
    /\ acall.op = "setex" /\ ~acall.more
    /\ acall.cmds = <<"set", "expire">>
    /\ acall.res = AThrew
    /\ store[acall.keys[1]].val = acall.v
    /\ store[acall.keys[1]].exp = NoExpiry

\* The client cl without its batched read.
NoBatch(cl) == Client(cl.m \ {"mget", "mGet"}, cl.enc)

Range(q) == {q[i] : i \in 1..Len(q)}

\* C24: every page request of an open scanIterator generator that is not
\* rejected is made from the cursor it holds, and yields every key of that
\* page after the keys yielded before, in the order of the page, and
\* changes nothing in the store; the generator ends exactly when the store
\* reports the walk over (cursor 0, the end of the iterator) and goes on
\* otherwise, an empty page included; and when every page was read from
\* the store as it was when the generator was made, the keys yielded by
\* the time it ends are all the keys present that match.
C24_ScanComplete ==
    [][(ctor = "adapter" /\ scan.state = "open" /\ scan'.pages > scan.pages
            /\ scan'.state # "threw")
        => LET r == RedisScan(store, scan.cursor, scan.match, scan.count) IN
           /\ scan'.out = scan.out \o r.keys
           /\ scan'.cursor = r.next
           /\ scan'.pages = scan.pages + 1
           /\ scan'.state = IF r.next = 0 THEN "done" ELSE "open"
           /\ store' = store
           /\ (scan'.state = "done" /\ scan.clean /\ store = scan.snap)
                => Range(scan'.out) = Matching(store, scan.match)]_vars

\* A generator over an unmodified store has ended after two pages, the
\* first of them empty, having yielded the one key present.
C24_Witness ==
    /\ ctor = "adapter"
    /\ scan.state = "done" /\ scan.clean
    /\ scan.pages = 2
    /\ Len(scan.out) = 1
    /\ scan.out[1] = KeyOrder[2]
    /\ Matching(store, scan.match) = {KeyOrder[2]}

\* C25: on the normalized client of either shape, a set(k, v) that resolves
\* to true has left v under k, and an acknowledged set resolves to true; a
\* get(k) that is not rejected resolves to the value under k, or to null
\* when k is absent, and changes nothing; a del that is not rejected
\* resolves to the number of its keys that were present (1 for a present
\* key, 0 for an absent one) and leaves each of them absent and every other
\* key as it was.  So get answers v after a true set and null after a
\* delete, without throwing.
C25_SetGetDel ==
    [][AResolves =>
        LET c == acall'
            k == c.keys[1] IN
        /\ (c.op = "set" /\ c.res = AFlag("bT"))
            => store' = [store EXCEPT ![k] = [val |-> c.v, exp |-> NoExpiry]]
        /\ (c.op = "set" /\ c.f = "ok") => c.res = AFlag("bT")
        /\ (c.op = "get" /\ c.f = "ok")
            => /\ c.res = IF Present(store, k)
                          THEN ARes("text", 0, <<store[k].val>>)
                          ELSE ARes("null", 0, <<NoText>>)
               /\ store' = store
        /\ (c.op = "del" /\ c.f = "ok")
            => /\ c.res = ANum(Cardinality({x \in Range(c.keys) : Present(store, x)}))
               /\ Len(c.keys) = 1
                    => c.res.n = IF Present(store, k) THEN 1 ELSE 0
               /\ \A x \in StoreKeys :
                    IF x \in Range(c.keys) THEN ~Present(store', x)
                    ELSE store'[x] = store[x]]_vars

\* A get has answered the value a set left under the callers' own key.
C25_Witness ==
    /\ ctor = "adapter"
    /\ acall.op = "get" /\ acall.keys = <<OtherKey>>
    /\ acall.res = ARes("text", 0, <<Json(P2)>>)
    /\ store[OtherKey] = [val |-> Json(P2), exp |-> NoExpiry]

\* C26: a session record comes into the store only through create: where
\* the record of an id is absent (deleted, expired or never made), no step
\* of the session store other than a create brings it in; a set in a scope
\* whose metadata still names the id does not.
C26_OnlyCreateMakes ==
    [][ctor = "store" =>
        \A s \in Sids :
            (~Present(store, getKey(s)) /\ Present(store', getKey(s)))
            => fresh'[s].by \in {"create", "raw"}]_vars

\* C27: with a numeric TTL, whenever no operation is under way, every
\* record in the store that the session store wrote last carries an expiry,
\* and one no later than the full TTL from now: no operation, whatever
\* failed in it, has left a session record without a TTL.
C27_AlwaysTtl ==
    (ctor = "store" /\ cfg.ttl # Disabled /\ \A sc \in Scopes : pc[sc] = "idle")
    => \A s \in Sids :
        (Present(store, getKey(s)) /\ fresh[s].by \in {"create", "set", "touch"})
        => /\ store[getKey(s)].exp # NoExpiry
           /\ store[getKey(s)].exp <= now + cfg.ttl

\* The set of scope sc has issued its write and has not returned yet.
SetWritten(sc) == pc[sc] \in {"set_expire", "set_reply"}

\* C28: when two requests that hold metadata for the same session id run
\* set at the same time, then once both writes are done, and for as long as
\* no one else writes or removes the record, the stored text is the
\* serialization of the payload of one of the two, whole; and the steps
\* that remain of either set leave the stored value as it is.
C28_LastWriteWins ==
    /\ [](\A a \in Scopes, b \in Scopes :
            (/\ a # b /\ SetWritten(a) /\ SetWritten(b)
             /\ loc[a].sid = loc[b].sid
             /\ fresh[loc[a].sid].by = "set"
             /\ Present(store, getKey(loc[a].sid)))
            => store[getKey(loc[a].sid)].val
                    \in {JSONstringify(loc[a].user), JSONstringify(loc[b].user)})
    /\ [][\A sc \in Scopes :
            (SetWritten(sc) /\ pc'[sc] # pc[sc])
            => \A k \in StoreKeys : store'[k].val = store[k].val]_vars

\* Both sets have written, the payloads differ, and the record holds the
\* payload of the second scope.
C28_Witness ==
    /\ pc[1] = "set_reply" /\ pc[2] = "set_reply"
    /\ loc[1].sid = loc[2].sid
    /\ loc[1].user = P2 /\ loc[2].user = Zero
    /\ fresh[loc[1].sid].by = "set"
    /\ store[getKey(loc[1].sid)].val = JSONstringify(Zero)

\* A step of the get of scope sc.
GetSteps(sc) ==
    \/ Calls(sc) /\ loc'[sc].op = "get"
    \/ pc[sc] \in {"get_reply", "get_ttl"} /\ pc'[sc] # pc[sc]

\* C29: when a get of s and a destroy of s run at the same time over a
\* store that does not fail, the get returns null if it read after the
\* delete and the stored payload if it read before, also when the record is
\* gone by the time it resets the TTL and returns, and in neither case the
\* failure signal; the destroy leaves the record absent; and no step of a
\* get, its rolling or renew TTL reset included, brings an absent record
\* into the store, so the record is absent once both have completed.
C29_GetRacesDestroy ==
    [][\A sc \in Scopes :
        LET data == loc[sc].data IN
        /\ (GetReturns(sc) /\ Missing(data)) => ret'[sc] = RNull
        /\ (GetReturns(sc) /\ ~Missing(data) /\ ~ParseThrows(data))
            => ret'[sc] = RValue(JSONparse(data))
        /\ GetSteps(sc)
            => \A k \in StoreKeys : ~Present(store, k) => ~Present(store', k)
        /\ (Calls(sc) /\ loc'[sc].op = "destroy" /\ HasMeta(meta[sc])
                /\ ~loc'[sc].faulted)
            => ~Present(store', getKey(meta[sc].sessionId))]_vars

\* Under rolling, the get of the second scope has read the payload, and the
\* destroy of the first scope has removed the record before the get resets
\* the TTL.
C29_Witness ==
    /\ cfg.rolling /\ cfg.ttl # Disabled
    /\ pc[2] = "get_reply" /\ loc[2].data = Json(P1)
    /\ pc[1] = "idle" /\ loc[1].op = "destroy" /\ loc[1].sid = loc[2].sid
    /\ ret[1] = RTrue
    /\ ~Present(store, getKey(loc[2].sid))

\* C30: a get that returns null or undefined (no record, a record that
\* cannot be parsed, a TTL reset that failed) leaves the metadata of its
\* scope as it was when the get was called.
C30_GetPublishesOnSuccess ==
    [][\A sc \in Scopes :
        /\ (Calls(sc) /\ loc'[sc].op = "get" /\ pc'[sc] = "idle")
            => meta'[sc] = meta[sc]
        /\ (/\ pc[sc] \in {"get_reply", "get_ttl"} /\ pc'[sc] = "idle"
            /\ ret'[sc] \in {RNull, RUndefined})
            => meta'[sc] = loc[sc].saved]_vars

\* The operation of scope sc returns at this step.
Returns(sc) ==
    /\ pc'[sc] = "idle"
    /\ pc[sc] # "idle" \/ Calls(sc)

\* The operation that returns at this step has reset the store TTL of its
\* record: a create, a set or a touch that succeeded with a numeric TTL, or
\* a get that issued its expire and was not rejected.
ResetsTtl(sc) ==
    /\ Returns(sc)
    /\ WithTtl
    /\ \/ loc'[sc].op = "create" /\ ret'[sc].r = "value"
       \/ loc'[sc].op \in {"set", "touch"} /\ ret'[sc] = RTrue
       \/ /\ loc'[sc].op = "get" /\ ret'[sc].r = "value"
          /\ "expire" \in Range(log'[sc])

\* C31: whenever create, get, set or touch returns having reset the store
\* TTL of its record, that same operation has published the metadata of its
\* scope, which then names the session id acted on.
C31_ResetRepublishes ==
    [][\A sc \in Scopes :
        ResetsTtl(sc) =>
            /\ loc'[sc].pub
            /\ meta'[sc].sessionId = loc'[sc].sid]_vars

\* A create, a get or a touch of scope sc returns with success at this step,
\* having published the metadata of the scope.
PublishedOk(sc) ==
    /\ Returns(sc)
    /\ loc'[sc].pub /\ ~loc'[sc].faulted
    /\ \/ loc'[sc].op \in {"create", "get"} /\ ret'[sc].r = "value"
       \/ loc'[sc].op = "touch" /\ ret'[sc] = RTrue

\* C32: with a numeric TTL, when a create, a get or a touch returns with
\* success and the record is in the store with a TTL, the expiry estimate
\* it published exceeds the record's expiry time in the store by no more
\* than the time the operation took.
C32_EstimateWithinLatency ==
    [][\A sc \in Scopes :
        LET key == getKey(loc'[sc].sid) IN
        (/\ PublishedOk(sc) /\ WithTtl
         /\ Present(store', key) /\ store'[key].exp # NoExpiry)
        => meta'[sc].expiresTime - store'[key].exp <= now - loc[sc].t0]_vars

\* The create or the get of scope sc publishes the metadata at this step.
Publishes(sc) ==
    /\ loc'[sc].op \in {"create", "get"}
    /\ pc[sc] # "idle"
    /\ ~loc[sc].pub /\ loc'[sc].pub

\* C33: every publication of metadata by create or get carries the session
\* id the operation acts on and, as expiry estimate, the time of the
\* publication plus the TTL when it is numeric, or plus one year when it is
\* disabled; the estimate is later than the time the operation was called.
C33_PublishedEstimate ==
    [][\A sc \in Scopes :
        Publishes(sc) =>
            /\ meta'[sc].sessionId = loc'[sc].sid
            /\ meta'[sc].sessionId \in Sids
            /\ meta'[sc].expiresTime =
                   IF cfg.ttl = Disabled THEN now + OneYear ELSE now + cfg.ttl
            /\ meta'[sc].expiresTime > now
            /\ meta'[sc].expiresTime > loc[sc].t0]_vars

\* A get has published with TTL disabled: its estimate is one year ahead.
C33_Witness ==
    \E sc \in Scopes :
        /\ pc[sc] = "idle" /\ loc[sc].pub /\ ret[sc].r = "value"
        /\ loc[sc].op = "get" /\ cfg.ttl = Disabled
        /\ meta[sc].sessionId = loc[sc].sid
        /\ meta[sc].expiresTime = now + OneYear

\* C34: with rolling and renew both enabled and a numeric TTL, a get that
\* has read valid JSON goes on exactly as under rolling alone: it issues one
\* EXPIRE with the full TTL whatever the remaining TTL, never reads the
\* remaining TTL, and, the EXPIRE not rejected, returns the parsed payload.
C34_RollingWins ==
    [][\A sc \in Scopes :
        (/\ cfg.rolling /\ cfg.renew /\ WithTtl
         /\ pc[sc] = "get_reply" /\ pc'[sc] # "get_reply"
         /\ ~Missing(loc[sc].data) /\ ~ParseThrows(loc[sc].data))
        => /\ pc'[sc] = "idle"
           /\ log'[sc] = <<"get", "expire">>
           /\ ~loc'[sc].faulted =>
                /\ ret'[sc] = RValue(JSONparse(loc[sc].data))
                /\ store' = RedisExpire(store, getKey(loc[sc].sid), cfg.ttl, now)]_vars

\* A get has returned a payload with both policies enabled, after an EXPIRE
\* and no TTL read, the record then holding the full TTL later than it was
\* made.
C34_Witness ==
    \E sc \in Scopes :
        /\ cfg.rolling /\ cfg.renew /\ WithTtl
        /\ pc[sc] = "idle" /\ loc[sc].op = "get" /\ ret[sc].r = "value"
        /\ log[sc] = <<"get", "expire">>
        /\ now > 0
        /\ store[getKey(loc[sc].sid)].exp = now + cfg.ttl

\* C35: within one call of create, get, set, destroy or touch no store
\* command is issued twice, and once a store call of the operation has
\* failed (rejected, or a write refused) the operation issues no other.
C35_NoRetry ==
    [][\A sc \in Scopes :
        log'[sc] # log[sc] =>
            IF pc[sc] = "idle"
            THEN Len(log'[sc]) <= 1
            ELSE /\ ~loc[sc].faulted
                 /\ \E c \in {"get", "ttl", "expire", "set", "setex", "del"} :
                        /\ log'[sc] = Append(log[sc], c)
                        /\ c \notin Range(log[sc])]_vars

\* A create over a client without setex has returned after its set was
\* acknowledged and its expire rejected: two commands, and none after the
\* failure.
C35_Witness ==
    \E sc \in Scopes :
        /\ pc[sc] = "idle" /\ loc[sc].op = "create" /\ loc[sc].faulted
        /\ log[sc] = <<"set", "expire">>
        /\ ret[sc] = RUndefined

\* C36: a create that succeeds returns the payload it was called with, and
\* has stored its serialization, whenever a payload was supplied, whatever
\* its value; it returns the default payload only when called without one.
C36_CreateKeepsPayload ==
    [][\A sc \in Scopes :
        LET sid == loc[sc].sid
            arg == fresh[sid].p IN
        (/\ pc[sc] = "create_reply" /\ pc'[sc] = "idle"
         /\ ret'[sc].r = "value"
         /\ fresh[sid].by = "create")
        => IF arg = Undefined
           THEN ret'[sc].v = defaultData
           ELSE /\ ret'[sc].v = arg
                /\ Present(store, getKey(sid))
                       => store[getKey(sid)].val = JSONstringify(arg)]_vars

\* The branch taken for the client, once it has been through shape
\* detection: "ioredis" is shape A, "node" shape B, "threw" a rejection.
Detected ==
    IF ctor \in {"adapter_threw", "store_threw"} THEN "threw" ELSE nclient

\* C37: a client that has been through shape detection is taken as shape A
\* exactly when scan and mget are among its methods and scanIterator is
\* not, as shape B exactly when scanIterator and mGet are among its
\* methods, never as both, and is rejected exactly when it is neither: the
\* outcome depends on the method set alone.
C37_ShapeDetection ==
    (ctor # "init" /\ "setex" \notin client.m) =>
        LET a == {"scan", "mget"} \subseteq client.m /\ "scanIterator" \notin client.m
            b == {"scanIterator", "mGet"} \subseteq client.m IN
        /\ ~(a /\ b)
        /\ Detected = "ioredis" <=> a
        /\ Detected = "node" <=> b
        /\ Detected = "threw" <=> ~a /\ ~b
        /\ Detected \in {"ioredis", "node", "threw"}

\* A client with all four methods has been taken as shape B.
C37_Witness ==
    /\ ctor = "adapter"
    /\ client.m = {"scan", "mget", "scanIterator", "mGet"}
    /\ nclient = "node"

\* A step of a session store operation of scope sc.
StoreStep(sc) ==
    /\ ctor = "store"
    /\ <<pc[sc], loc[sc], ret[sc], log[sc]>>' # <<pc[sc], loc[sc], ret[sc], log[sc]>>

C39_LazyScan ==
    [][ctor = "adapter" =>
        /\ scan'.pages > scan.pages =>
              /\ scan.taken = Len(scan.out)
              /\ scan'.pages = scan.pages + 1
        /\ Len(scan'.out) - scan'.taken <= scan'.count
        /\ (scan.state = "stopped" /\ scan'.state = "stopped") => scan' = scan]_vars

\* A consumer has stopped after the first key of the first page: one page
\* was requested, the walk was not over, and a matching key of the store
\* was never fetched.
C39_Witness ==
    /\ ctor = "adapter"
    /\ scan.state = "stopped"
    /\ scan.pages = 1 /\ scan.cursor # 0
    /\ scan.taken = 1 /\ Len(scan.out) = 1
    /\ \E k \in Matching(store, scan.match) : k \notin Range(scan.out)

\* C40: over a client without a ttl function, ttl on the normalized client
\* resolves to -2 and issues no command; and under renew no step of a get
\* changes the store or issues a TTL or an EXPIRE, so the record keeps the
\* expiry it had.
C40_NoTtlPrimitive ==
    []["ttl" \notin client.m =>
        /\ (ctor = "adapter" /\ acall' # acall /\ acall'.op = "ttl")
            => /\ acall'.res = ANum(-2)
               /\ acall'.cmds = <<>>
               /\ store' = store /\ faults' = faults
        /\ \A sc \in Scopes :
            (RenewPolicy /\ StoreStep(sc) /\ loc'[sc].op = "get")
            => /\ store' = store
               /\ Range(log'[sc]) \subseteq {"get"}]_vars

\* Under renew over a client without ttl, a get has returned the payload of
\* a record whose remaining TTL is below renewBefore, and the record still
\* expires when it did.
C40_Witness ==
    \E sc \in Scopes :
        /\ "ttl" \notin client.m /\ RenewPolicy
        /\ pc[sc] = "idle" /\ loc[sc].op = "get" /\ ret[sc].r = "value"
        /\ Present(store, getKey(loc[sc].sid))
        /\ store[getKey(loc[sc].sid)].exp - now = 1
        /\ 1 < cfg.renewBefore

====
